---- MODULE Spec2Model ----
(***************************************************************************)
(* quind: a keyed file index (fdb.rs, on the kv/sled store with records    *)
(* serialised by serde_json) and a filesystem monitor (monitor.rs, on the  *)
(* notify watcher and an mpsc channel).                                    *)
(***************************************************************************)
EXTENDS Integers, Sequences, FiniteSets, TLC

\* ------------------------------------------------------------------ bounds

\* Longest FileData.path (in characters) the model enumerates.
MaxPathLen == 1

\* ------------------------------------------------------------------ values

Quote == "\""
Backslash == "\\"

\* Characters of a path: a plain one and the two serde_json must escape.
Chars == {"a", Quote, Backslash}

PathStrings == UNION {[1..n -> Chars] : n \in 0..MaxPathLen}

\* Record keys (File.name) handed to the store.
Keys == {"test1", "test2"}

\* The backing location and store name the handle is built over.
DbPaths == {"./instance/db"}
DbNames == {"test"}

\* Directories handed to watch/unwatch, and those of them that exist.
Roots == {"./data", "./instance", "./missing"}
ExistingRoots == {"./data", "./instance"}

\* struct FileData { path }
FileData(p) == [path |-> p]

FileDatas == {FileData(p) : p \in PathStrings}

\* struct File { name, data }
File(n, d) == [name |-> n, data |-> d]

\* struct Fdb { name, path, config }: config is Config::new(path).
Fdb(p, n) == [name |-> n, path |-> p, config |-> p]

\* Result<T, Error> and a panic (an unwrap on Err or None).
Ok(v) == [kind |-> "Ok", val |-> v]
Err(e) == [kind |-> "Err", val |-> e]
Panic(m) == [kind |-> "Panic", val |-> m]

Unit == "()"

\* ------------------------------------------------------------- serde_json

\* A serialiser that writes every character as it is.
EscapeChar_raw(c) == <<c>>

EscapeChar(c) ==
    IF c = Quote THEN <<Backslash, Quote>>
    ELSE IF c = Backslash THEN <<Backslash, Backslash>>
    ELSE <<c>>

RECURSIVE EscapeStr(_)
EscapeStr(s) ==
    IF s = <<>> THEN <<>> ELSE EscapeChar(Head(s)) \o EscapeStr(Tail(s))

\* The text before the value of the one field: {"path":"
JsonPrefix == <<"{", Quote, "p", "a", "t", "h", Quote, ":", Quote>>

\* serde_json::to_string(&f.data): never fails for a struct of one String.
to_string(d) == Ok(JsonPrefix \o EscapeStr(d.path) \o <<Quote, "}">>)

\* The string literal after its opening quote: the characters up to the
\* closing quote, unescaped, and the text after it.
RECURSIVE ParseStr(_, _)
ParseStr(s, acc) ==
    IF s = <<>> THEN [ok |-> FALSE, str |-> acc, rest |-> <<>>]
    ELSE IF Head(s) = Quote THEN [ok |-> TRUE, str |-> acc, rest |-> Tail(s)]
    ELSE IF Head(s) = Backslash
      THEN IF Len(s) >= 2 /\ s[2] \in {Quote, Backslash}
             THEN ParseStr(SubSeq(s, 3, Len(s)), Append(acc, s[2]))
             ELSE [ok |-> FALSE, str |-> acc, rest |-> <<>>]
    ELSE ParseStr(Tail(s), Append(acc, Head(s)))

\* serde_json::from_str::<FileData>(text)
from_str(text) ==
    IF Len(text) >= Len(JsonPrefix) /\ SubSeq(text, 1, Len(JsonPrefix)) = JsonPrefix
      THEN LET r == ParseStr(SubSeq(text, Len(JsonPrefix) + 1, Len(text)), <<>>)
           IN  IF r.ok /\ r.rest = <<"}">> THEN Ok(FileData(r.str)) ELSE Err("JSON")
      ELSE Err("JSON")

\* --------------------------------------------------------------- kv store

\* The backing location: whether the directory is there, and the entries of
\* the default bucket as (key, value) pairs.
NoDisk == [exists |-> FALSE, tree |-> {}]

\* An open that does not create the database.
Store_new_keep(disk) == disk

\* Store::new(config): opens the database at the path, creating it when absent.
Store_new(disk) == [disk EXCEPT !.exists = TRUE]

\* bucket.get(key): Some(value) as <<value>>, None as <<>>.
bucket_get(tree, k) ==
    IF \E e \in tree : e.key = k
      THEN <<(CHOOSE e \in tree : e.key = k).value>>
      ELSE <<>>

\* A set that inserts the entry next to the one the key already has.
bucket_set_insert(tree, k, v) == tree \cup {[key |-> k, value |-> v]}

\* bucket.set(key, value): the entry of the key is replaced.
bucket_set(tree, k, v) ==
    {e \in tree : e.key # k} \cup {[key |-> k, value |-> v]}

\* A remove that clears the bucket.
bucket_remove_clear(tree, k) == {}

\* bucket.remove(key)
bucket_remove(tree, k) == {e \in tree : e.key # k}

\* ------------------------------------------------------------------- Fdb
\* Each operation is [disk |-> the location afterwards, res |-> its result].

Fdb_new(p, n) == Fdb(p, n)

Fdb_load(p, n) == Ok(Fdb(p, n))

\* An exists that answers false for an absent location.
Fdb_exists_bool(self, disk) ==
    [disk |-> disk, res |-> Ok(disk.exists)]

Fdb_exists(self, disk) ==
    [disk |-> disk,
     res  |-> IF disk.exists THEN Ok(TRUE) ELSE Err("KVInitError")]

\* A check that takes the absence of the key for a failure.
Fdb_check_strict(self, disk, n) ==
    LET store == Store_new(disk)
        result == bucket_get(store.tree, n)
    IN  [disk |-> store,
         res  |-> IF result = <<>> THEN Err("KV") ELSE Ok(TRUE)]

Fdb_check(self, disk, n) ==
    LET store == Store_new(disk)
        result == bucket_get(store.tree, n)
    IN  [disk |-> store,
         res  |-> IF result = <<>> THEN Ok(FALSE) ELSE Ok(TRUE)]

\* An add that leaves a record that is there as it is.
Fdb_add_if_absent(self, disk, f) ==
    LET store == Store_new(disk)
        json == to_string(f.data)
    IN  IF bucket_get(store.tree, f.name) # <<>>
          THEN [disk |-> store, res |-> Ok(Unit)]
          ELSE [disk |-> [store EXCEPT !.tree = bucket_set(@, f.name, json.val)],
                res  |-> Ok(Unit)]

Fdb_add(self, disk, f) ==
    LET store == Store_new(disk)
        json == to_string(f.data)
    IN  IF json.kind # "Ok"
          THEN [disk |-> store, res |-> json]
          ELSE [disk |-> [store EXCEPT !.tree = bucket_set(@, f.name, json.val)],
                res  |-> Ok(Unit)]

Fdb_get(self, disk, n) ==
    LET store == Store_new(disk)
        result == bucket_get(store.tree, n)
    IN  IF result = <<>>
          THEN [disk |-> store, res |-> Panic("unwrap on None")]
          ELSE LET data == from_str(result[1])
               IN  [disk |-> store,
                    res  |-> IF data.kind = "Ok" THEN Ok(File(n, data.val)) ELSE data]

\* An update that writes only over a record that is there.
Fdb_update_existing(self, disk, n, d) ==
    LET store == Store_new(disk)
        json == to_string(d)
    IN  IF bucket_get(store.tree, n) = <<>>
          THEN [disk |-> store, res |-> Err("KV")]
          ELSE [disk |-> [store EXCEPT !.tree = bucket_set(@, n, json.val)],
                res  |-> Ok(Unit)]

Fdb_update(self, disk, n, d) ==
    LET store == Store_new(disk)
        f == File(n, d)
        json == to_string(f.data)
    IN  IF json.kind # "Ok"
          THEN [disk |-> store, res |-> json]
          ELSE [disk |-> [store EXCEPT !.tree = bucket_set(@, f.name, json.val)],
                res  |-> Ok(Unit)]

\* A remove that reports a key without a record.
Fdb_remove_strict(self, disk, n) ==
    LET store == Store_new(disk)
    IN  IF bucket_get(store.tree, n) = <<>>
          THEN [disk |-> store, res |-> Err("KV")]
          ELSE [disk |-> [store EXCEPT !.tree = bucket_remove(@, n)],
                res  |-> Ok(Unit)]

Fdb_remove(self, disk, n) ==
    LET store == Store_new(disk)
    IN  [disk |-> [store EXCEPT !.tree = bucket_remove(@, n)],
         res  |-> Ok(Unit)]

\* ------------------------------------------------------- storage failures
\* What an operation returns when the storage fails under it: "open" fails
\* Store::new, whose result every operation unwraps; "bucket" fails
\* store.bucket, whose error every operation returns; "io" fails the get, set
\* or remove on the bucket, whose error check unwraps and the others return.

Faults == {"open", "bucket", "io"}

StoreOps == {"check", "add", "get", "update", "remove"}

Fdb_under(f, op, disk, healthy) ==
    IF f = "open" THEN [disk |-> disk, res |-> Panic("unwrap on Err")]
    ELSE IF f = "bucket" THEN [disk |-> Store_new(disk), res |-> Err("KV")]
    ELSE IF f = "io"
      THEN [disk |-> Store_new(disk),
            res  |-> IF op = "check" THEN Panic("unwrap on Err") ELSE Err("KV")]
    ELSE healthy

\* The operation of a name, on a healthy store.
Fdb_call(self, disk, op, n, d) ==
    IF op = "check" THEN Fdb_check(self, disk, n)
    ELSE IF op = "add" THEN Fdb_add(self, disk, File(n, d))
    ELSE IF op = "get" THEN Fdb_get(self, disk, n)
    ELSE IF op = "update" THEN Fdb_update(self, disk, n, d)
    ELSE Fdb_remove(self, disk, n)

\* Store::new while the database is open under another handle: the
\* database is locked by the handle that has it open.
Store_open(disk, lock, who) ==
    IF lock \notin {"", who} THEN Err("KV") ELSE Ok(Store_new(disk))

\* ----------------------------------------------------------- store events
\* The events of one key as the index sees them, and the operation each is
\* applied as: Create as add, Modify as update, Remove as remove, Rename as
\* remove of the old key, then add of the new one.

StoreEvents(k) ==
    {[kind |-> "Create", key |-> k, data |-> d] : d \in FileDatas}
    \cup {[kind |-> "Modify", key |-> k, data |-> d] : d \in FileDatas}
    \cup {[kind |-> "Remove", key |-> k, data |-> FileData(<<>>)]}

Apply(self, disk, e) ==
    IF e.kind = "Create" THEN Fdb_add(self, disk, File(e.key, e.data))
    ELSE IF e.kind = "Modify" THEN Fdb_update(self, disk, e.key, e.data)
    ELSE Fdb_remove(self, disk, e.key)

ApplyRename(self, disk, oldKey, newKey, d) ==
    LET removed == Fdb_remove(self, disk, oldKey)
    IN  IF removed.res.kind # "Ok" THEN removed
        ELSE Fdb_add(self, removed.disk, File(newKey, d))

\* ---------------------------------------------------------------- notify
\* The watcher keeps one registration per watched path.

RecursiveMode == "Recursive"

\* A watcher that refuses a path it already watches.
watcher_watch_once(ws, d, mode) ==
    IF d \notin ExistingRoots
      THEN [watches |-> ws, res |-> Err("PathNotFound")]
      ELSE IF \E w \in ws : w.path = d
        THEN [watches |-> ws, res |-> Err("Generic")]
        ELSE [watches |-> ws \cup {[path |-> d, mode |-> mode]}, res |-> Ok(Unit)]

\* Watcher::watch(path, mode): fails on a path that does not exist; the
\* registration of an already watched path is replaced.
watcher_watch(ws, d, mode) ==
    IF d \notin ExistingRoots
      THEN [watches |-> ws, res |-> Err("PathNotFound")]
      ELSE [watches |-> {w \in ws : w.path # d} \cup {[path |-> d, mode |-> mode]},
            res     |-> Ok(Unit)]

\* Watcher::unwatch(path): fails on a path that has no registration.
watcher_unwatch(ws, d) ==
    IF \E w \in ws : w.path = d
      THEN [watches |-> {w \in ws : w.path # d}, res |-> Ok(Unit)]
      ELSE [watches |-> ws, res |-> Err("WatchNotFound")]

\* What the watcher hands to its callback: Ok(Event) or Err(notify::Error).
EventKinds == {"Create", "Remove"}
Event(kind, p) == [kind |-> kind, paths |-> <<p>>]
Notifications(ws) ==
    {Ok(Event(k, w.path)) : k \in EventKinds, w \in ws} \cup {Err("Notify")}

\* mpsc: tx.send(result) appends; rx.recv() takes the head, blocks on an
\* empty channel whose sender lives and fails once the sender is gone.
\* A send that drops a result equal to the one sent before it.
mpsc_send_dedup(ch, m) ==
    IF ch # <<>> /\ ch[Len(ch)] = m THEN ch ELSE Append(ch, m)

mpsc_send(ch, m) == Append(ch, m)

mpsc_recv(ch, sender) ==
    IF ch # <<>> THEN [chan |-> Tail(ch), res |-> Ok(Head(ch)), blocked |-> FALSE]
    ELSE IF sender THEN [chan |-> ch, res |-> Ok(Unit), blocked |-> TRUE]
    ELSE [chan |-> ch, res |-> Err("RecvError"), blocked |-> FALSE]

\* --------------------------------------------------------------- Monitor

Monitor_set_precise(configured) ==
    IF configured.kind = "Ok" THEN Ok(TRUE) ELSE Err("Notify")

Monitor_watch(ws, d) ==
    LET _watch == watcher_watch(ws, d, RecursiveMode)
    IN  [watches |-> _watch.watches,
         res     |-> IF _watch.res.kind = "Ok" THEN Ok(Unit) ELSE Err("Notify")]

\* An unwatch that drops the watcher's error.
Monitor_unwatch_quiet(ws, d) ==
    LET _unwatch == watcher_unwatch(ws, d)
    IN  [watches |-> _unwatch.watches, res |-> Ok(Unit)]

Monitor_unwatch(ws, d) ==
    LET _unwatch == watcher_unwatch(ws, d)
    IN  [watches |-> _unwatch.watches,
         res     |-> IF _unwatch.res.kind = "Ok" THEN Ok(Unit) ELSE Err("Notify")]

\* A get that reports an error the watcher sent as the end of the channel.
Monitor_get_flat(ch, sender) ==
    LET r == mpsc_recv(ch, sender)
    IN  [chan    |-> r.chan,
         blocked |-> r.blocked,
         res     |-> IF r.blocked THEN Ok(Unit)
                     ELSE IF r.res.kind = "Ok" /\ r.res.val.kind = "Ok"
                       THEN Ok(r.res.val)
                       ELSE Err("Sync")]

Monitor_get(ch, sender) ==
    LET r == mpsc_recv(ch, sender)
    IN  [chan    |-> r.chan,
         blocked |-> r.blocked,
         res     |-> IF r.res.kind = "Ok" THEN Ok(r.res.val) ELSE Err("Sync")]

\* ------------------------------------------------------------------ state

VARIABLES
    disk,      \* the backing location of the store
    fdb,       \* the handle the caller holds: <<>> or <<Fdb>>
    written,   \* keys whose last add/update was not followed by a remove
    monitor,   \* whether Monitor::new has built the monitor
    watches,   \* the watcher's registrations
    precise,   \* whether precise events are configured
    chan,      \* the results sent by the callback and not yet received
    tx_alive,  \* whether the callback (the channel's sender) lives
    sent,      \* every result the callback has sent, in the order sent
    got,       \* every result Monitor::get has returned, in the order returned
    closed,    \* whether a Monitor::get has failed on the closed channel
    fault,     \* the storage failure the last store call met, "none" without
    engine,    \* the consuming loop: its state and the events it has applied
    conc,      \* two callers at work at once: the lock on the database, and
               \* the call each of the writer w and the reader r is in
    last       \* the last call: its name, arguments and result

fdbVars == <<disk, fdb, written, fault, conc>>
monitorVars == <<monitor, watches, precise, chan, tx_alive, sent, got, closed,
                 engine>>
vars == <<disk, fdb, written, fault, conc, monitor, watches, precise, chan, tx_alive,
          sent, got, closed, engine, last>>

NoData == FileData(<<>>)

\* A call as the caller sees it, with what it found: had, whether the key
\* (root, location) was there before the call, and old, the value stored
\* under the key before it.
NoCall == [op |-> "none", key |-> "", data |-> NoData, had |-> FALSE,
           old |-> <<>>, res |-> Ok(Unit)]

Call(op, k, d, had, old, res) ==
    [op |-> op, key |-> k, data |-> d, had |-> had, old |-> old, res |-> res]

HasRecord(d, k) == \E e \in d.tree : e.key = k

\* A caller's call: where it is (idle, open: about to open the store, run:
\* holding the store open, done), what it calls and with what result.
NoThread == [pc |-> "idle", op |-> "none", key |-> "", data |-> NoData,
             had |-> FALSE, res |-> Ok(Unit)]

\* The consuming loop before it is started.
NoEngine == [state |-> "Idle", applied |-> 0]

NoConc == [lock |-> "", w |-> NoThread, r |-> NoThread]

Init ==
    /\ disk = NoDisk
    /\ fdb = <<>>
    /\ written = {}
    /\ monitor = FALSE
    /\ watches = {}
    /\ precise = FALSE
    /\ chan = <<>>
    /\ tx_alive = FALSE
    /\ sent = <<>>
    /\ got = <<>>
    /\ closed = FALSE
    /\ fault = "none"
    /\ conc = NoConc
    /\ engine = NoEngine
    /\ last = NoCall

\* ---------------------------------------------------------------- actions

New ==
    \E p \in DbPaths, n \in DbNames :
        /\ fdb' = <<Fdb_new(p, n)>>
        /\ last' = Call("new", "", NoData, disk.exists, <<>>, Ok(Unit))
        /\ UNCHANGED <<disk, written, fault, conc, monitorVars>>

Load ==
    \E p \in DbPaths, n \in DbNames :
        LET r == Fdb_load(p, n)
        IN  /\ fdb' = IF r.kind = "Ok" THEN <<r.val>> ELSE <<>>
            /\ last' = Call("load", "", NoData, disk.exists, <<>>,
                            IF r.kind = "Ok" THEN Ok(Unit) ELSE r)
            /\ UNCHANGED <<disk, written, fault, conc, monitorVars>>

Exists ==
    /\ fdb # <<>>
    /\ LET r == Fdb_exists(fdb[1], disk)
       IN  /\ disk' = r.disk
           /\ last' = Call("exists", "", NoData, disk.exists, <<>>, r.res)
    /\ fault' = "none"
    /\ UNCHANGED <<fdb, written, conc, monitorVars>>

Check ==
    /\ fdb # <<>>
    /\ \E n \in Keys :
        LET r == Fdb_check(fdb[1], disk, n)
        IN  /\ disk' = r.disk
            /\ last' = Call("check", n, NoData, HasRecord(disk, n),
                            bucket_get(disk.tree, n), r.res)
    /\ fault' = "none"
    /\ UNCHANGED <<fdb, written, conc, monitorVars>>

Add ==
    /\ fdb # <<>>
    /\ \E n \in Keys, d \in FileDatas :
        LET r == Fdb_add(fdb[1], disk, File(n, d))
        IN  /\ disk' = r.disk
            /\ written' = IF r.res.kind = "Ok" THEN written \cup {n} ELSE written
            /\ last' = Call("add", n, d, HasRecord(disk, n),
                            bucket_get(disk.tree, n), r.res)
    /\ fault' = "none"
    /\ UNCHANGED <<fdb, conc, monitorVars>>

Get ==
    /\ fdb # <<>>
    /\ \E n \in Keys :
        LET r == Fdb_get(fdb[1], disk, n)
        IN  /\ disk' = r.disk
            /\ last' = Call("get", n, NoData, HasRecord(disk, n),
                            bucket_get(disk.tree, n), r.res)
    /\ fault' = "none"
    /\ UNCHANGED <<fdb, written, conc, monitorVars>>

Update ==
    /\ fdb # <<>>
    /\ \E n \in Keys, d \in FileDatas :
        LET r == Fdb_update(fdb[1], disk, n, d)
        IN  /\ disk' = r.disk
            /\ written' = IF r.res.kind = "Ok" THEN written \cup {n} ELSE written
            /\ last' = Call("update", n, d, HasRecord(disk, n),
                            bucket_get(disk.tree, n), r.res)
    /\ fault' = "none"
    /\ UNCHANGED <<fdb, conc, monitorVars>>

Remove ==
    /\ fdb # <<>>
    /\ \E n \in Keys :
        LET r == Fdb_remove(fdb[1], disk, n)
        IN  /\ disk' = r.disk
            /\ written' = IF r.res.kind = "Ok" THEN written \ {n} ELSE written
            /\ last' = Call("remove", n, NoData, HasRecord(disk, n),
                            bucket_get(disk.tree, n), r.res)
    /\ fault' = "none"
    /\ UNCHANGED <<fdb, conc, monitorVars>>

\* tests::reset: fs::remove_dir_all on the backing location.
Reset ==
    /\ disk' = NoDisk
    /\ written' = {}
    /\ last' = Call("reset", "", NoData, disk.exists, <<>>, Ok(Unit))
    /\ fault' = "none"
    /\ UNCHANGED <<fdb, conc, monitorVars>>

\* A Rename applied to the store.
Rename ==
    /\ fdb # <<>>
    /\ \E oldKey \in Keys, d \in FileDatas :
        \E newKey \in Keys \ {oldKey} :
            LET r == ApplyRename(fdb[1], disk, oldKey, newKey, d)
            IN  /\ disk' = r.disk
                /\ written' = IF r.res.kind = "Ok"
                                THEN (written \ {oldKey}) \cup {newKey}
                                ELSE written
                /\ last' = Call("rename", newKey, d, HasRecord(disk, oldKey),
                                <<oldKey>>, r.res)
    /\ fault' = "none"
    /\ UNCHANGED <<fdb, conc, monitorVars>>

Next ==
    \/ New
    \/ Load
    \/ Exists
    \/ Check
    \/ Add
    \/ Get
    \/ Update
    \/ Remove
    \/ Rename
    \/ Reset

Spec == Init /\ [][Next]_vars

\* A store operation under a storage failure.
FaultyCall ==
    /\ fdb # <<>>
    /\ \E op \in StoreOps, n \in Keys, d \in FileDatas, f \in Faults :
        LET r == Fdb_under(f, op, disk, Fdb_call(fdb[1], disk, op, n, d))
        IN  /\ disk' = r.disk
            /\ fault' = f
            /\ last' = Call(op, n, IF op \in {"add", "update"} THEN d ELSE NoData,
                            HasRecord(disk, n), bucket_get(disk.tree, n), r.res)
    /\ UNCHANGED <<fdb, written, conc, monitorVars>>

FaultNext ==
    \/ Next
    \/ FaultyCall

FaultSpec == Init /\ [][FaultNext]_vars

\* ------------------------------------------------------------ concurrency
\* A writer (add, update) and a reader (get, check) call the store at the
\* same time, each call opening the store for itself: the call opens the
\* store (Store::new), runs on the bucket and returns, dropping the store.

WriterOps == {"add", "update"}
ReaderOps == {"get", "check"}

\* The caller c enters a call of op.
Enter(c, ops) ==
    /\ fdb # <<>>
    /\ conc[c].pc \in {"idle", "done"}
    /\ \E op \in ops, n \in Keys, d \in FileDatas :
        conc' = [conc EXCEPT ![c] =
                    [pc |-> "open", op |-> op, key |-> n,
                     data |-> IF op \in WriterOps THEN d ELSE NoData,
                     had |-> HasRecord(disk, n), res |-> Ok(Unit)]]
    /\ UNCHANGED <<disk, fdb, written, fault, monitorVars, last>>

\* let store = Store::new(self.config.clone()).unwrap();
Open(c) ==
    /\ conc[c].pc = "open"
    /\ LET store == Store_open(disk, conc.lock, c)
       IN  IF store.kind = "Ok"
             THEN /\ disk' = store.val
                  /\ conc' = [conc EXCEPT !.lock = c, ![c].pc = "run"]
             ELSE /\ disk' = disk
                  /\ conc' = [conc EXCEPT ![c].pc = "done",
                                          ![c].res = Panic("unwrap on Err")]
    /\ UNCHANGED <<fdb, written, fault, monitorVars, last>>

\* The rest of the operation, and the drop of the store at its end.
Run(c) ==
    /\ conc[c].pc = "run"
    /\ LET r == Fdb_call(fdb[1], disk, conc[c].op, conc[c].key, conc[c].data)
       IN  /\ disk' = r.disk
           /\ written' = IF conc[c].op \in WriterOps /\ r.res.kind = "Ok"
                           THEN written \cup {conc[c].key} ELSE written
           /\ conc' = [conc EXCEPT !.lock = "", ![c].pc = "done", ![c].res = r.res]
    /\ UNCHANGED <<fdb, fault, monitorVars, last>>

WriterEnter == Enter("w", WriterOps)
WriterOpen == Open("w")
WriterRun == Run("w")
ReaderEnter == Enter("r", ReaderOps)
ReaderOpen == Open("r")
ReaderRun == Run("r")

ConcNext ==
    \/ New
    \/ WriterEnter
    \/ WriterOpen
    \/ WriterRun
    \/ ReaderEnter
    \/ ReaderOpen
    \/ ReaderRun

ConcSpec == Init /\ [][ConcNext]_vars

\* The bound on results waiting in the channel.
MaxChan == 2

IsWatched(ws, d) == \E w \in ws : w.path = d

\* Monitor::new: the channel, and the watcher whose callback owns the sender.
MonitorNew ==
    /\ ~monitor
    /\ monitor' = TRUE
    /\ watches' = {}
    /\ precise' = FALSE
    /\ chan' = <<>>
    /\ tx_alive' = TRUE
    /\ sent' = <<>>
    /\ got' = <<>>
    /\ closed' = FALSE
    /\ last' = Call("Monitor::new", "", NoData, FALSE, <<>>, Ok(Unit))
    /\ UNCHANGED <<fdbVars, engine>>

SetPrecise ==
    /\ monitor
    /\ \E configured \in {Ok(TRUE), Ok(FALSE), Err("Generic")} :
        /\ precise' = IF configured = Ok(TRUE) THEN TRUE ELSE precise
        /\ last' = Call("set_precise", "", NoData, precise, <<>>,
                        Monitor_set_precise(configured))
    /\ UNCHANGED <<fdbVars, engine, watches, chan, tx_alive, monitor, sent, got, closed>>

Watch ==
    /\ monitor
    /\ \E d \in Roots :
        LET r == Monitor_watch(watches, d)
        IN  /\ watches' = r.watches
            /\ last' = Call("watch", d, NoData, IsWatched(watches, d), <<>>, r.res)
    /\ UNCHANGED <<fdbVars, engine, precise, chan, tx_alive, monitor, sent, got, closed>>

Unwatch ==
    /\ monitor
    /\ \E d \in Roots :
        LET r == Monitor_unwatch(watches, d)
        IN  /\ watches' = r.watches
            /\ last' = Call("unwatch", d, NoData, IsWatched(watches, d), <<>>, r.res)
    /\ UNCHANGED <<fdbVars, engine, precise, chan, tx_alive, monitor, sent, got, closed>>

\* The bound on results the callback sends over a run.
MaxSent == 3

\* A callback whose sender outlives the watcher.
Callback_detached ==
    /\ monitor
    /\ Len(chan) < MaxChan
    /\ Len(sent) < MaxSent
    /\ \E result \in Notifications(watches) :
        /\ chan' = mpsc_send(chan, result)
        /\ sent' = Append(sent, result)
    /\ UNCHANGED <<fdbVars, engine, watches, precise, tx_alive, monitor, got, closed, last>>

\* The watcher's callback: tx.send(result).unwrap()
Callback ==
    /\ monitor
    /\ tx_alive
    /\ Len(chan) < MaxChan
    /\ Len(sent) < MaxSent
    /\ \E result \in Notifications(watches) :
        /\ chan' = mpsc_send(chan, result)
        /\ sent' = Append(sent, result)
    /\ UNCHANGED <<fdbVars, engine, watches, precise, tx_alive, monitor, got, closed, last>>

MonitorGet ==
    /\ monitor
    /\ LET r == Monitor_get(chan, tx_alive)
       IN  /\ ~r.blocked
           /\ chan' = r.chan
           /\ got' = IF r.res.kind = "Ok" THEN Append(got, r.res.val) ELSE got
           /\ closed' = (closed \/ r.res = Err("Sync"))
           /\ last' = Call("Monitor::get", "", NoData, chan # <<>>, <<>>, r.res)
    /\ UNCHANGED <<fdbVars, engine, watches, precise, tx_alive, monitor, sent>>

MonitorNext ==
    \/ MonitorNew
    \/ SetPrecise
    \/ Watch
    \/ Unwatch
    \/ Callback
    \/ MonitorGet

MonitorSpec == Init /\ [][MonitorNext]_vars

\* The watcher ends and drops its callback, and with it the channel's only
\* sender (the tx moved into the closure of Monitor::new).
SenderDrop ==
    /\ monitor
    /\ tx_alive
    /\ tx_alive' = FALSE
    /\ UNCHANGED <<fdbVars, engine, monitor, watches, precise, chan, sent, got, closed, last>>

ChannelNext ==
    \/ MonitorNew
    \/ Watch
    \/ Unwatch
    \/ Callback
    \/ MonitorGet
    \/ SenderDrop

ChannelSpec == Init /\ [][ChannelNext]_vars

\* ----------------------------------------------------------- sync engine
\* The loop that consumes the watcher's results and applies them to the
\* store: one result pulled with Monitor::get per iteration.

\* The key of an event: the final segment of its path.
FinalSegment(p) ==
    IF p = "./data" THEN "data"
    ELSE IF p = "./instance" THEN "instance"
    ELSE "missing"

\* The record of an event's path; the watched roots are written in ordinary
\* characters, which the payload's alphabet holds as "a".
EventData(p) == FileData(<<"a">>)

\* The watcher's event as the store event it is applied as.
StoreEvent(ev) ==
    [kind |-> ev.kind, key |-> FinalSegment(ev.paths[1]),
     data |-> EventData(ev.paths[1])]

\* The loop starts once a store and a Monitor with a watched root exist.
EngineStart ==
    /\ engine.state = "Idle"
    /\ fdb # <<>>
    /\ monitor
    /\ watches # {}
    /\ engine' = [engine EXCEPT !.state = "Running"]
    /\ UNCHANGED <<fdbVars, monitor, watches, precise, chan, tx_alive, sent,
                   got, closed, last>>

\* One iteration: pull; a closed source stops the loop, an event is applied
\* to the store, an error of the watcher is reported and the loop goes on.
Consume ==
    /\ engine.state = "Running"
    /\ LET r == Monitor_get(chan, tx_alive)
           isEvent == r.res.kind = "Ok" /\ r.res.val.kind = "Ok"
           applied == IF isEvent
                        THEN Apply(fdb[1], disk, StoreEvent(r.res.val.val))
                        ELSE [disk |-> disk, res |-> Ok(Unit)]
       IN  /\ ~r.blocked
           /\ chan' = r.chan
           /\ got' = IF r.res.kind = "Ok" THEN Append(got, r.res.val) ELSE got
           /\ closed' = (closed \/ r.res = Err("Sync"))
           /\ disk' = applied.disk
           /\ engine' = [state   |-> IF r.res = Err("Sync") THEN "Stopped"
                                                             ELSE "Running",
                         applied |-> IF isEvent THEN engine.applied + 1
                                                ELSE engine.applied]
           /\ last' = Call("Monitor::get", "", NoData, chan # <<>>, <<>>, r.res)
    /\ UNCHANGED <<fdb, written, fault, conc, monitor, watches, precise,
                   tx_alive, sent>>

EngineNext ==
    \/ New
    \/ MonitorNew
    \/ Watch
    \/ Callback
    \/ SenderDrop
    \/ EngineStart
    \/ Consume

EngineSpec == Init /\ [][EngineNext]_vars

\* ----------------------------------------------------------------- claims

\* The value add/update store for a payload.
Stored(d) == to_string(d).val

\* C1: from every store state, for every key k and payload d, an add of
\* File{name: k, data: d} that returns Ok followed at once by get(k) returns
\* Ok(File{name: k, data: d}); so does a get right after the add just made.
C1_RoundTrip ==
    fdb # <<>> =>
        /\ \A k \in Keys, d \in FileDatas :
            LET a == Fdb_add(fdb[1], disk, File(k, d))
            IN  a.res.kind = "Ok" =>
                    Fdb_get(fdb[1], a.disk, k).res = Ok(File(k, d))
        /\ (last.op = "add" /\ last.res.kind = "Ok") =>
                Fdb_get(fdb[1], disk, last.key).res = Ok(File(last.key, last.data))

\* C1 witness: an add of a payload whose path needs escaping has returned
\* Ok and get returns that record.
C1_Witness ==
    /\ fdb # <<>>
    /\ last.op = "add"
    /\ last.res.kind = "Ok"
    /\ last.data = FileData(<<Quote>>)
    /\ Fdb_get(fdb[1], disk, last.key).res = Ok(File(last.key, last.data))

UniqueKeys(tree) == \A e1, e2 \in tree : e1.key = e2.key => e1 = e2

\* C2: the store never holds two records of one key; from every store
\* state an add returns Ok, also on a key that has a record, and leaves the
\* key with the new payload alone; the same add once more changes nothing.
C2_AddIsUpsert ==
    /\ UniqueKeys(disk.tree)
    /\ fdb # <<>> =>
        \A k \in Keys, d \in FileDatas :
            LET a == Fdb_add(fdb[1], disk, File(k, d))
                b == Fdb_add(fdb[1], a.disk, File(k, d))
            IN  /\ a.res = Ok(Unit)
                /\ {e \in a.disk.tree : e.key = k} = {[key |-> k, value |-> Stored(d)]}
                /\ b.res = Ok(Unit)
                /\ b.disk = a.disk
    /\ last.op = "add" =>
        /\ last.res = Ok(Unit)
        /\ {e \in disk.tree : e.key = last.key}
             = {[key |-> last.key, value |-> Stored(last.data)]}

\* C2 witness: an add on a key that held another payload has returned Ok
\* and the key holds the new payload.
C2_Witness ==
    /\ last.op = "add"
    /\ last.had
    /\ last.old # <<Stored(last.data)>>
    /\ last.res = Ok(Unit)
    /\ bucket_get(disk.tree, last.key) = <<Stored(last.data)>>

\* C3: from every store state update(k, d) returns what add(File{k, d})
\* returns and leaves the store add leaves, also when k has no record; get(k)
\* after an update(k, d) returns the record with d.
C3_UpdateIsAdd ==
    fdb # <<>> =>
        /\ \A k \in Keys, d \in FileDatas :
            LET u == Fdb_update(fdb[1], disk, k, d)
                a == Fdb_add(fdb[1], disk, File(k, d))
            IN  /\ u.res = a.res
                /\ u.disk = a.disk
                /\ Fdb_get(fdb[1], u.disk, k).res = Ok(File(k, d))
        /\ last.op = "update" =>
            /\ last.res = Ok(Unit)
            /\ Fdb_get(fdb[1], disk, last.key).res = Ok(File(last.key, last.data))

\* C3 witness: an update on a key without a record has created the record.
C3_Witness ==
    /\ last.op = "update"
    /\ ~last.had
    /\ last.res = Ok(Unit)
    /\ bucket_get(disk.tree, last.key) = <<Stored(last.data)>>

\* C4: check(k) returns Ok(true) when the last add/update of k was not
\* followed by a remove of k, and Ok(false), not an error, otherwise.
C4_CheckIffRecord ==
    /\ fdb # <<>> =>
        \A k \in Keys : Fdb_check(fdb[1], disk, k).res = Ok(k \in written)
    /\ last.op = "check" => last.res = Ok(last.key \in written)

\* C4 witness: a check of a key without a record, in a store that holds
\* another key, has returned Ok(false).
C4_Witness ==
    /\ last.op = "check"
    /\ last.key \notin written
    /\ written # {}
    /\ last.res = Ok(FALSE)

\* C5: from every store state remove(k) returns Ok whether or not k has a
\* record, check(k) is then false, and a second remove(k) returns Ok and
\* leaves the store as the first left it.
C5_RemoveIdempotent ==
    /\ fdb # <<>> =>
        \A k \in Keys :
            LET r1 == Fdb_remove(fdb[1], disk, k)
                r2 == Fdb_remove(fdb[1], r1.disk, k)
            IN  /\ r1.res = Ok(Unit)
                /\ Fdb_check(fdb[1], r1.disk, k).res = Ok(FALSE)
                /\ r2.res = Ok(Unit)
                /\ r2.disk = r1.disk
    /\ last.op = "remove" =>
        /\ last.res = Ok(Unit)
        /\ ~HasRecord(disk, last.key)

\* C5 witness: a remove of a key without a record has returned Ok, in a
\* store that holds another key.
C5_Witness ==
    /\ last.op = "remove"
    /\ ~last.had
    /\ last.res = Ok(Unit)
    /\ disk.tree # {}

\* C6 (as claimed): a get of a key without a record returns the error value
\* NotFound. The code unwraps the None the bucket returns.
C6_GetMissingIsNotFound ==
    (last.op = "get" /\ ~last.had) => last.res = Err("NotFound")

\* C7: exists() returns Err(KVInitError) when the backing location is absent
\* and Ok(true) when it is present, and never Ok(false); on the handle a load
\* over a present location has returned it is Ok(true).
C7_ExistsReportsLocation ==
    /\ fdb # <<>> =>
        LET r == Fdb_exists(fdb[1], disk).res
        IN  /\ disk.exists => (r.kind = "Ok" /\ r.val = TRUE)
            /\ ~disk.exists => r = Err("KVInitError")
    /\ last.op = "exists" =>
        /\ last.had => (last.res.kind = "Ok" /\ last.res.val = TRUE)
        /\ ~last.had => last.res = Err("KVInitError")
    /\ (last.op = "load" /\ last.had) =>
        /\ fdb # <<>>
        /\ Fdb_exists(fdb[1], disk).res.kind = "Ok"

\* C7 witness: exists() on a handle over an absent location has failed
\* with KVInitError.
C7_Witness ==
    /\ last.op = "exists"
    /\ ~disk.exists
    /\ last.res = Err("KVInitError")

\* C8 (as claimed): a load over a backing location that is absent returns a
\* failure and no handle. The code's load builds the handle as new does.
C8_LoadFailsFast ==
    (last.op = "load" /\ ~last.had) => last.res.kind = "Err"

\* C9: unwatch(root) returns Ok exactly when root is watched; it then leaves
\* root unwatched; on a root that is not watched it returns an error and
\* leaves the watched set as it was; after a watch(root) that returned Ok,
\* unwatch(root) returns Ok.
C9_UnwatchIffWatched ==
    /\ monitor =>
        \A d \in Roots :
            LET r == Monitor_unwatch(watches, d)
            IN  /\ (r.res = Ok(Unit)) <=> IsWatched(watches, d)
                /\ ~IsWatched(r.watches, d)
                /\ ~IsWatched(watches, d) =>
                      (r.res = Err("Notify") /\ r.watches = watches)
                /\ \A e \in Roots \ {d} :
                      IsWatched(r.watches, e) <=> IsWatched(watches, e)
    /\ (last.op = "watch" /\ last.res = Ok(Unit)) =>
        Monitor_unwatch(watches, last.key).res = Ok(Unit)
    /\ last.op = "unwatch" =>
        /\ (last.res = Ok(Unit)) <=> last.had
        /\ ~IsWatched(watches, last.key)

\* C9 witness: an unwatch of a root that is not watched, next to one that
\* is, has returned an error.
C9_Witness ==
    /\ last.op = "unwatch"
    /\ ~last.had
    /\ last.res = Err("Notify")
    /\ watches # {}

\* C10: watch(root) on a root that is watched returns Ok and leaves the
\* watched set as it was, with one registration of root, so that one
\* unwatch(root) leaves root unwatched.
C10_WatchIdempotent ==
    /\ monitor =>
        \A d \in Roots :
            IsWatched(watches, d) =>
                LET r == Monitor_watch(watches, d)
                IN  /\ r.res = Ok(Unit)
                    /\ r.watches = watches
                    /\ Cardinality({w \in r.watches : w.path = d}) = 1
                    /\ ~IsWatched(Monitor_unwatch(r.watches, d).watches, d)
    /\ (last.op = "watch" /\ last.had) =>
        /\ last.res = Ok(Unit)
        /\ Cardinality({w \in watches : w.path = last.key}) = 1

\* C10 witness: a watch of a root that was watched has returned Ok, next
\* to another watched root.
C10_Witness ==
    /\ last.op = "watch"
    /\ last.had
    /\ last.res = Ok(Unit)
    /\ Cardinality(watches) = 2

\* C11: once a Monitor::get has failed on the closed channel, a call made
\* now fails with the same Sync error, every call made since has failed with
\* it, and none has returned a result.
C11_ClosedIsTerminal ==
    closed =>
        /\ Monitor_get(chan, tx_alive).res = Err("Sync")
        /\ ~Monitor_get(chan, tx_alive).blocked
        /\ last.op = "Monitor::get" => last.res = Err("Sync")

\* C11 witness: the pull has returned results, then failed on the closed
\* channel.
C11_Witness ==
    /\ closed
    /\ got # <<>>
    /\ last.op = "Monitor::get"
    /\ last.res = Err("Sync")

\* C16: the results Monitor::get has returned, followed by those waiting in
\* the channel, are the results the callback has sent, each once and in the
\* order sent, equal ones included.
C16_FifoNoDedup ==
    /\ got \o chan = sent
    /\ (last.op = "Monitor::get" /\ last.res.kind = "Ok") =>
            (got # <<>> /\ last.res.val = got[Len(got)])

\* C16 witness: two equal notifications have both been returned, one after
\* the other.
C16_Witness ==
    /\ Len(got) >= 2
    /\ got[1].kind = "Ok"
    /\ got[1] = got[2]
    /\ last.op = "Monitor::get"

\* C12: from every store state, remove(oldKey) and then add of the record
\* of newKey both return Ok, whether or not oldKey has a record; afterwards
\* get(newKey) returns the new record and check(oldKey) is false.
C12_RenameSafe ==
    /\ fdb # <<>> =>
        \A oldKey \in Keys, d \in FileDatas :
            \A newKey \in Keys \ {oldKey} :
                LET removed == Fdb_remove(fdb[1], disk, oldKey)
                    added == Fdb_add(fdb[1], removed.disk, File(newKey, d))
                IN  /\ removed.res = Ok(Unit)
                    /\ added.res = Ok(Unit)
                    /\ Fdb_get(fdb[1], added.disk, newKey).res = Ok(File(newKey, d))
                    /\ Fdb_check(fdb[1], added.disk, oldKey).res = Ok(FALSE)
    /\ last.op = "rename" =>
        /\ last.res = Ok(Unit)
        /\ bucket_get(disk.tree, last.key) = <<Stored(last.data)>>
        /\ ~HasRecord(disk, last.old[1])

\* C12 witness: a Rename whose old key had no record has been applied and
\* the new key holds the record.
C12_Witness ==
    /\ last.op = "rename"
    /\ ~last.had
    /\ last.res = Ok(Unit)
    /\ bucket_get(disk.tree, last.key) = <<Stored(last.data)>>

\* C13: an event of a key applied to any store the operations can reach
\* (any earlier events, in any order, any number of times) returns Ok and
\* leaves the key with what the event alone leaves on an empty store;
\* applying it once more changes nothing.
C13_Convergence ==
    fdb # <<>> =>
        \A k \in Keys :
            \A e \in StoreEvents(k) :
                LET once == Apply(fdb[1], disk, e)
                    alone == Apply(fdb[1], NoDisk, e)
                    twice == Apply(fdb[1], once.disk, e)
                IN  /\ once.res = Ok(Unit)
                    /\ bucket_get(once.disk.tree, k) = bucket_get(alone.disk.tree, k)
                    /\ twice.disk = once.disk

\* C13 witness: a Create has been applied to a key that already held the
\* payload of that Create, and the key holds it still.
C13_Witness ==
    /\ last.op = "add"
    /\ last.old = <<Stored(last.data)>>
    /\ bucket_get(disk.tree, last.key) = last.old
    /\ last.data # NoData

\* C19: add, update and remove of a key leave what every other key holds;
\* check and get leave what every key holds.
C19_Frame ==
    /\ fdb # <<>> =>
        \A k \in Keys :
            /\ Fdb_check(fdb[1], disk, k).disk.tree = disk.tree
            /\ Fdb_get(fdb[1], disk, k).disk.tree = disk.tree
            /\ \A k2 \in Keys \ {k} :
                /\ bucket_get(Fdb_remove(fdb[1], disk, k).disk.tree, k2)
                     = bucket_get(disk.tree, k2)
                /\ \A d \in FileDatas :
                    /\ bucket_get(Fdb_add(fdb[1], disk, File(k, d)).disk.tree, k2)
                         = bucket_get(disk.tree, k2)
                    /\ bucket_get(Fdb_update(fdb[1], disk, k, d).disk.tree, k2)
                         = bucket_get(disk.tree, k2)
    /\ last.op \in {"add", "update", "remove", "check", "get"} =>
        \A k2 \in Keys \ {last.key} : (k2 \in written) <=> HasRecord(disk, k2)

\* C19 witness: a remove of a key that had a record has left the record of
\* the other key.
C19_Witness ==
    /\ last.op = "remove"
    /\ last.had
    /\ disk.tree # {}
    /\ ~HasRecord(disk, last.key)

\* C18 (as claimed): construction and the read-only operations check, get and
\* exists leave an absent backing location absent. The code's check and get
\* open the store, which creates it.
C18_CreatedByFirstWriteOnly ==
    [][(last'.op \in {"new", "load", "check", "get", "exists"} /\ ~disk.exists)
          => ~disk'.exists]_vars

\* C18 (amended): new, load and exists leave the backing location as it is,
\* so that exists() on an absent one still fails; every operation that opens
\* the store (check, get, add, update, remove) leaves the location present,
\* so that exists() returns Ok(true) after the first of them.
C18_CreatedByFirstOpen ==
    [][/\ last'.op \in {"new", "load", "exists"} =>
            /\ disk' = disk
            /\ ~disk.exists => Fdb_exists(fdb'[1], disk').res = Err("KVInitError")
       /\ last'.op \in {"check", "get", "add", "update", "remove", "rename"} =>
            /\ disk'.exists
            /\ Fdb_exists(fdb'[1], disk').res.kind = "Ok"
            /\ Fdb_exists(fdb'[1], disk').res.val = TRUE]_vars

\* C18 witness: a check on a store that holds no record has returned
\* Ok(false) and the backing location is present.
C18_Witness ==
    /\ last.op = "check"
    /\ last.res = Ok(FALSE)
    /\ written = {}
    /\ disk = [exists |-> TRUE, tree |-> {}]

\* C14 (as claimed): a store operation that meets a storage failure returns
\* the failure as an error value. The code unwraps the result of Store::new
\* in every operation, and the result of the bucket's get in check.
C14_FailureIsErrorValue ==
    (last.op \in StoreOps /\ fault # "none") => last.res.kind = "Err"

\* C17 (as claimed): a check, or a get of a key that has a record, made
\* while a writer adds to or updates the store completes without failure,
\* with a whole record (get) or an answer (check). The code opens the store
\* anew in every call, and the open of a store another call holds open
\* fails and is unwrapped.
C17_ReaderCompletes ==
    (/\ conc.r.pc = "done"
     /\ conc.w.pc = "run"
     /\ conc.w.key = conc.r.key
     /\ (conc.r.op = "check" \/ conc.r.had)) =>
        /\ conc.r.res.kind = "Ok"
        /\ conc.r.op = "get" =>
              \E d \in FileDatas : conc.r.res.val = File(conc.r.key, d)
        /\ conc.r.op = "check" => conc.r.res.val \in BOOLEAN

\* C15: the consuming loop is Stopped exactly when its pull has reported
\* the closed channel, which it reports only with the sender gone and the
\* channel empty; once Stopped the loop stays Stopped and applies no event;
\* and a pull that returns an error sent by the watcher leaves the loop
\* Running.
C15_Step ==
    /\ (engine'.state = "Stopped") <=> closed'
    /\ engine'.state = "Stopped" => (~tx_alive' /\ chan' = <<>>)
    /\ engine.state = "Stopped" => (engine' = engine /\ got' = got)
    /\ (engine.state = "Running" /\ Len(got') > Len(got)
            /\ got'[Len(got')].kind = "Err")
          => (engine'.state = "Running" /\ ~closed')

====
